---------------------------- MODULE Spec2Model ----------------------------
(***************************************************************************)
(* A model of catalytic/src/query_metadata.rs: the three annotation        *)
(* parsers (FromStr for Ttl, Timestamp and Timeout) and query_columns.     *)
(*                                                                         *)
(* A Rust &str / String is a sequence of one-character strings.  An i32 or *)
(* i64 is a sign and a magnitude, the magnitude a sequence of decimal      *)
(* digits without leading zeros (zero is <<0>>, never negative), so that   *)
(* both widths are kept exactly.                                           *)
(*                                                                         *)
(* Three specifications: SpecParse applies the parsers to a string,        *)
(* SpecRoundTrip formats a Fixed value and parses the literal again, Spec  *)
(* runs query_columns against a catalog that changes.                      *)
(***************************************************************************)
EXTENDS Integers, Sequences, FiniteSets, TLC

VARIABLES
    input,      \* the annotation string handed to the parsers
    ttl,        \* Ttl::from_str(input), None until called
    timestamp,  \* Timestamp::from_str(input), None until called
    timeout,    \* Timeout::from_str(input), None until called
    orig,       \* round trip: the annotation value formatted
    lit,        \* round trip: its literal string, None until formatted
    back,       \* round trip: the literal parsed again, None until parsed
    env,        \* the process configuration: Some(keyspace), or None when it is missing
    catalog,    \* system_schema.columns: its rows, in the order the database returns them
    changes,    \* how many times the catalog changed
    prev,       \* the invocation of query_columns before the last one, None before it
    last        \* the last invocation of query_columns, None before it

annVars == <<input, ttl, timestamp, timeout, orig, lit, back>>

colVars == <<env, catalog, changes, prev, last>>

vars == <<input, ttl, timestamp, timeout, orig, lit, back, env, catalog, changes, prev, last>>

-----------------------------------------------------------------------------
(* Bounds of the model *)

\* longest annotation string enumerated over ShortChars
MaxLen == 3

\* longest table name handed to query_columns
MaxNameLen == 1

\* changes of the catalog in one behaviour
MaxChanges == 1

-----------------------------------------------------------------------------
(* Strings and integers *)

DigitChars == <<"0", "1", "2", "3", "4", "5", "6", "7", "8", "9">>

IsDigit(c) == \E d \in 1..10 : DigitChars[d] = c

\* char::to_digit(10) of a decimal digit
DigitVal(c) == (CHOOSE d \in 1..10 : DigitChars[d] = c) - 1

DigitChar(d) == DigitChars[d + 1]

\* magnitude of i32::MAX, i32::MIN, i64::MAX, i64::MIN
I32MaxMag == <<2, 1, 4, 7, 4, 8, 3, 6, 4, 7>>
I32MinMag == <<2, 1, 4, 7, 4, 8, 3, 6, 4, 8>>
I64MaxMag == <<9, 2, 2, 3, 3, 7, 2, 0, 3, 6, 8, 5, 4, 7, 7, 5, 8, 0, 7>>
I64MinMag == <<9, 2, 2, 3, 3, 7, 2, 0, 3, 6, 8, 5, 4, 7, 7, 5, 8, 0, 8>>

\* a <= b for magnitudes without leading zeros
MagLeq(a, b) ==
    \/ Len(a) < Len(b)
    \/ /\ Len(a) = Len(b)
       /\ \/ a = b
          \/ \E i \in 1..Len(a) :
                /\ a[i] < b[i]
                /\ \A j \in 1..(i - 1) : a[j] = b[j]

\* acc * 10 + d
MulAdd(acc, d) == IF acc = <<0>> THEN <<d>> ELSE Append(acc, d)

MkInt(neg, mag) == [neg |-> neg /\ mag # <<0>>, mag |-> mag]

\* the values of an i32 and of an i64
InI32(v) == IF v.neg THEN MagLeq(v.mag, I32MinMag) ELSE MagLeq(v.mag, I32MaxMag)

InI64(v) == IF v.neg THEN MagLeq(v.mag, I64MinMag) ELSE MagLeq(v.mag, I64MaxMag)

-----------------------------------------------------------------------------
(* Results *)

None == [tag |-> "None"]
Parameterized == [tag |-> "Parameterized"]
Fixed(v) == [tag |-> "Fixed", val |-> v]
Err(kind) == [tag |-> "Err", kind |-> kind]
Ok(v) == [tag |-> "Ok", val |-> v]
Some(v) == [tag |-> "Some", val |-> v]

-----------------------------------------------------------------------------
(* <i32 as FromStr>::from_str and <i64 as FromStr>::from_str, reached by   *)
(* s.parse()?: an optional sign, then one or more decimal digits, every    *)
(* step of the accumulation checked against the type's range.              *)

RECURSIVE ParseDigits(_, _, _, _, _)
ParseDigits(digits, i, acc, limit, overflow) ==
    IF i > Len(digits) THEN Ok(acc)
    ELSE IF ~IsDigit(digits[i]) THEN Err("InvalidDigit")
    ELSE LET next == MulAdd(acc, DigitVal(digits[i]))
         IN  IF ~MagLeq(next, limit) THEN Err(overflow)
             ELSE ParseDigits(digits, i + 1, next, limit, overflow)

IntFromStr(src, maxMag, minMag) ==
    IF src = <<>> THEN Err("Empty")
    ELSE IF src = <<"+">> \/ src = <<"-">> THEN Err("InvalidDigit")
    ELSE LET neg == src[1] = "-"
             digits == IF src[1] = "+" \/ src[1] = "-" THEN Tail(src) ELSE src
             r == IF neg THEN ParseDigits(digits, 1, <<0>>, minMag, "NegOverflow")
                         ELSE ParseDigits(digits, 1, <<0>>, maxMag, "PosOverflow")
         IN  IF r.tag = "Ok" THEN Ok(MkInt(neg, r.val)) ELSE r

I32FromStr(src) == IntFromStr(src, I32MaxMag, I32MinMag)

I64FromStr(src) == IntFromStr(src, I64MaxMag, I64MinMag)

\* Display of an i32 / i64: a minus sign for a negative value, the digits
IntToString(v) ==
    (IF v.neg THEN <<"-">> ELSE <<>>) \o [i \in 1..Len(v.mag) |-> DigitChar(v.mag[i])]

-----------------------------------------------------------------------------
(* The annotation parsers *)

\* str::trim
RECURSIVE Trim(_)
Trim(s) ==
    IF s # <<>> /\ s[1] = " " THEN Trim(Tail(s))
    ELSE IF s # <<>> /\ s[Len(s)] = " " THEN Trim(SubSeq(s, 1, Len(s) - 1))
    ELSE s

\* Ttl::from_str parsing through an unsigned type: s.parse::<u32>()? as i32
TtlFromStrUnsigned(s) ==
    IF s = <<"?">> THEN Parameterized
    ELSE IF s # <<>> /\ s[1] = "-" THEN Err("InvalidDigit")
    ELSE LET r == I32FromStr(s)
         IN  IF r.tag = "Ok" THEN Fixed(r.val) ELSE r

\* Ttl::from_str defaulting a malformed literal: s.parse().unwrap_or_default()
TtlFromStrDefaulted(s) ==
    IF s = <<"?">> THEN Parameterized
    ELSE LET r == I32FromStr(s)
         IN  IF r.tag = "Ok" THEN Fixed(r.val) ELSE Fixed(MkInt(FALSE, <<0>>))

TtlFromStr(s) ==
    IF s = <<"?">> THEN Parameterized
    ELSE LET r == I32FromStr(s)
         IN  IF r.tag = "Ok" THEN Fixed(r.val) ELSE r

\* Timestamp::from_str with the body of Ttl::from_str: the literal parsed as i32
TimestampFromStrAsI32(s) ==
    IF s = <<"?">> THEN Parameterized
    ELSE LET r == I32FromStr(s)
         IN  IF r.tag = "Ok" THEN Fixed(r.val) ELSE r

TimestampFromStr(s) ==
    IF s = <<"?">> THEN Parameterized
    ELSE LET r == I64FromStr(s)
         IN  IF r.tag = "Ok" THEN Fixed(r.val) ELSE r

\* Timeout::from_str testing s.starts_with('?') instead of s == "?"
TimeoutFromStrPrefix(s) ==
    IF s # <<>> /\ s[1] = "?" THEN Parameterized
    ELSE Fixed(s)

\* Timeout::from_str keeping s.trim().to_string()
TimeoutFromStrTrimmed(s) ==
    IF s = <<"?">> THEN Parameterized
    ELSE Fixed(Trim(s))

TimeoutFromStr(s) ==
    IF s = <<"?">> THEN Parameterized
    ELSE Fixed(s)

-----------------------------------------------------------------------------
(* Inputs *)

ShortChars == {"?", "+", "-", "0", "1", "9", " ", "a", "."}

ShortStrings == UNION {[1..n -> ShortChars] : n \in 0..MaxLen}

\* magnitudes at and around the ends of the i32 and the i64 range
BoundaryMags ==
    UNION {   {[base EXCEPT ![Len(base)] = d] : d \in 0..9}
        \cup {[base EXCEPT ![1] = d] : d \in 1..9}
        \cup {Append(base, 0)}
        : base \in {I32MaxMag, I64MaxMag}}

MagToString(m) == [i \in 1..Len(m) |-> DigitChar(m[i])]

BoundaryStrings ==
    {sign \o zeros \o MagToString(m) :
        sign \in {<<>>, <<"+">>, <<"-">>}, zeros \in {<<>>, <<"0">>}, m \in BoundaryMags}

Inputs == ShortStrings \cup BoundaryStrings

-----------------------------------------------------------------------------
(* The parsers applied to an annotation string *)

InitParse ==
    /\ input \in Inputs
    /\ ttl = None
    /\ timestamp = None
    /\ timeout = None
    /\ orig = None
    /\ lit = None
    /\ back = None
    /\ env = None
    /\ catalog = <<>>
    /\ changes = 0
    /\ prev = None
    /\ last = None

ParseTtl ==
    /\ ttl = None
    /\ ttl' = TtlFromStr(input)
    /\ UNCHANGED <<input, timestamp, timeout, orig, lit, back, colVars>>

ParseTimestamp ==
    /\ timestamp = None
    /\ timestamp' = TimestampFromStr(input)
    /\ UNCHANGED <<input, ttl, timeout, orig, lit, back, colVars>>

ParseTimeout ==
    /\ timeout = None
    /\ timeout' = TimeoutFromStr(input)
    /\ UNCHANGED <<input, ttl, timestamp, orig, lit, back, colVars>>

NextParse == ParseTtl \/ ParseTimestamp \/ ParseTimeout

SpecParse == InitParse /\ [][NextParse]_vars

-----------------------------------------------------------------------------
(* A Fixed annotation formatted to its literal and parsed again *)

SampleDigits == {0, 1, 5, 9}

SampleMags ==
    {m \in UNION {[1..n -> SampleDigits] : n \in 1..MaxLen} : m = <<0>> \/ m[1] # 0}
        \cup BoundaryMags

SampleInts == {MkInt(neg, m) : neg \in BOOLEAN, m \in SampleMags}

\* the values of the three types that are Fixed
TtlFixed ==
    {[kind |-> "Ttl", val |-> Fixed(v)] : v \in {n \in SampleInts : InI32(n)}}

TimestampFixed ==
    {[kind |-> "Timestamp", val |-> Fixed(v)] : v \in {n \in SampleInts : InI64(n)}}

TimeoutFixed ==
    {[kind |-> "Timeout", val |-> Fixed(s)] : s \in Inputs}

\* the literal of the value a Fixed annotation holds
FormatFixed(a) ==
    IF a.kind = "Timeout" THEN a.val.val ELSE IntToString(a.val.val)

ParseAs(kind, s) ==
    CASE kind = "Ttl" -> TtlFromStr(s)
      [] kind = "Timestamp" -> TimestampFromStr(s)
      [] kind = "Timeout" -> TimeoutFromStr(s)

InitRoundTrip ==
    /\ input = <<>>
    /\ ttl = None
    /\ timestamp = None
    /\ timeout = None
    /\ \/ orig \in TtlFixed
       \/ orig \in TimestampFixed
       \/ orig \in TimeoutFixed
    /\ lit = None
    /\ back = None
    /\ env = None
    /\ catalog = <<>>
    /\ changes = 0
    /\ prev = None
    /\ last = None

Format ==
    /\ lit = None
    /\ lit' = Some(FormatFixed(orig))
    /\ UNCHANGED <<input, ttl, timestamp, timeout, orig, back, colVars>>

Reparse ==
    /\ lit # None
    /\ back = None
    /\ back' = ParseAs(orig.kind, lit.val)
    /\ UNCHANGED <<input, ttl, timestamp, timeout, orig, lit, colVars>>

NextRoundTrip == Format \/ Reparse

SpecRoundTrip == InitRoundTrip /\ [][NextRoundTrip]_vars

-----------------------------------------------------------------------------
(* query_columns and its collaborators *)

\* the characters of the table names handed to query_columns
TableChars == {"t", "T"}

TableNames == UNION {[1..n -> TableChars] : n \in 1..MaxNameLen}

\* char::to_lowercase over the letters of TableChars
LowerChar(c) == IF c = "T" THEN "t" ELSE c

\* str::to_lowercase
ToLowercase(s) == [i \in 1..Len(s) |-> LowerChar(s[i])]

\* the pieces of the format string around the two {} (line 138)
SelectPrefix ==
    "select column_name, kind, position, type as data_type from system_schema.columns where keyspace_name = '"

TableClause == "' and table_name = '"

Quote == "'"

\* format! without table.to_lowercase(): the table name as given
IntrospectionQueryAsGiven(ks, table) ==
    <<SelectPrefix>> \o ks \o <<TableClause>> \o table \o <<Quote>>

\* the query text: the literal pieces as one element each, the keyspace and
\* the table name interpolated character by character
IntrospectionQuery(ks, table) ==
    <<SelectPrefix>> \o ks \o <<TableClause>> \o ToLowercase(table) \o <<Quote>>

\* crate::env_property_reader::keyspace: the configured keyspace, or a failure
Keyspace == IF env = None THEN Err("ConfigurationMissing") ELSE Ok(env.val)

\* a row of system_schema.columns
Row(ks, tbl, name, kind, pos, type) ==
    [keyspace_name |-> ks, table_name |-> tbl, column_name |-> name,
     kind |-> kind, position |-> pos, data_type |-> type]

\* ColumnInTable: what the introspection query selects of a row
Column(r) ==
    [column_name |-> r.column_name, kind |-> r.kind,
     position |-> r.position, data_type |-> r.data_type]

RECURSIVE SelectRows(_, _, _)
SelectRows(cat, ks, tbl) ==
    IF cat = <<>> THEN <<>>
    ELSE (IF Head(cat).keyspace_name = ks /\ Head(cat).table_name = tbl
          THEN <<Column(Head(cat))>> ELSE <<>>) \o SelectRows(Tail(cat), ks, tbl)

\* crate::runtime::query_collect_to_vec on a database that answers: the rows
\* of the catalog whose keyspace_name and table_name equal the two literals
\* of the query text, in the catalog's order
QueryCollectToVec(query, params, cat) ==
    LET j == CHOOSE i \in 1..Len(query) : query[i] = TableClause
    IN  SelectRows(cat, SubSeq(query, 2, j - 1), SubSeq(query, j + 1, Len(query) - 1))

\* partition-key columns before clustering-key columns before regular columns
KindRank(kind) ==
    CASE kind = "partition_key" -> 0
      [] kind = "clustering" -> 1
      [] kind = "regular" -> 2

\* a sorts strictly before b: by kind, then by position
ColumnLess(a, b) ==
    \/ KindRank(a.kind) < KindRank(b.kind)
    \/ KindRank(a.kind) = KindRank(b.kind) /\ a.position < b.position

\* c put into the sorted s behind every column that does not sort after it
RECURSIVE InsertColumn(_, _)
InsertColumn(s, c) ==
    IF s = <<>> THEN <<c>>
    ELSE IF ColumnLess(c, Head(s)) THEN <<c>> \o s
    ELSE <<Head(s)>> \o InsertColumn(Tail(s), c)

\* crate::sort::sort_columns: a stable sort by kind, then position
RECURSIVE SortColumns(_)
SortColumns(cols) ==
    IF cols = <<>> THEN <<>>
    ELSE InsertColumn(SortColumns(SubSeq(cols, 1, Len(cols) - 1)), cols[Len(cols)])

Returned(v) == [tag |-> "Returned", val |-> v]
Panicked(payload) == [tag |-> "Panicked", payload |-> payload]

\* what one invocation did: its argument, the requests it sent to the
\* execution collaborator, the failure a collaborator reported, the rows the
\* collaborator returned, how often the sort ran, how the invocation ended,
\* and the catalog as it was when the request ran
Invocation(table, requests, failure, raw, sorts, outcome, cat) ==
    [tag |-> "Invocation", table |-> table, requests |-> requests,
     failure |-> failure, raw |-> raw, sorts |-> sorts, outcome |-> outcome,
     seen |-> cat]

\* query_columns turning a collaborator's failure into an empty column list
QueryColumnsDefaulting(table, cat, fails) ==
    LET ks == Keyspace
    IN  IF ks.tag = "Err"
        THEN Invocation(table, <<>>, Some(ks.kind), None, 0, Returned(<<>>), cat)
        ELSE LET query == IntrospectionQuery(ks.val, table)
                 request == [query |-> query, params |-> <<>>]
             IN  IF fails
                 THEN Invocation(table, <<request>>, Some("CatalogUnavailable"),
                                 None, 0, Returned(<<>>), cat)
                 ELSE LET collected == QueryCollectToVec(query, <<>>, cat)
                      IN  Invocation(table, <<request>>, None, Some(collected), 1,
                                     Returned(SortColumns(collected)), cat)

\* query_columns without the call of sort_columns
QueryColumnsUnsorted(table, cat, fails) ==
    LET ks == Keyspace
    IN  IF ks.tag = "Err"
        THEN Invocation(table, <<>>, Some(ks.kind), None, 0, Panicked(ks.kind), cat)
        ELSE LET query == IntrospectionQuery(ks.val, table)
                 request == [query |-> query, params |-> <<>>]
             IN  IF fails
                 THEN Invocation(table, <<request>>, Some("CatalogUnavailable"),
                                 None, 0, Panicked("CatalogUnavailable"), cat)
                 ELSE LET collected == QueryCollectToVec(query, <<>>, cat)
                      IN  Invocation(table, <<request>>, None, Some(collected), 0,
                                     Returned(collected), cat)

\* query_columns keeping the rows of the invocation before it for the same query
QueryColumnsCached(table, cat, fails) ==
    LET ks == Keyspace
    IN  IF ks.tag = "Err"
        THEN Invocation(table, <<>>, Some(ks.kind), None, 0, Panicked(ks.kind), cat)
        ELSE LET query == IntrospectionQuery(ks.val, table)
                 request == [query |-> query, params |-> <<>>]
             IN  IF /\ last # None
                    /\ last.outcome.tag = "Returned"
                    /\ last.requests = <<request>>
                 THEN Invocation(table, <<>>, None, last.raw, 0, last.outcome, cat)
                 ELSE IF fails
                 THEN Invocation(table, <<request>>, Some("CatalogUnavailable"),
                                 None, 0, Panicked("CatalogUnavailable"), cat)
                 ELSE LET collected == QueryCollectToVec(query, <<>>, cat)
                      IN  Invocation(table, <<request>>, None, Some(collected), 1,
                                     Returned(SortColumns(collected)), cat)

\* query_columns(table) against the catalog cat, the execution collaborator
\* failing or not.  It has no error path of its own and returns a
\* Vec<ColumnInTable>: a collaborator that fails unwinds through it.
QueryColumnsRun(table, cat, fails) ==
    LET ks == Keyspace
    IN  IF ks.tag = "Err"
        THEN Invocation(table, <<>>, Some(ks.kind), None, 0, Panicked(ks.kind), cat)
        ELSE LET query == IntrospectionQuery(ks.val, table)
                 request == [query |-> query, params |-> <<>>]
             IN  IF fails
                 THEN Invocation(table, <<request>>, Some("CatalogUnavailable"),
                                 None, 0, Panicked("CatalogUnavailable"), cat)
                 ELSE LET collected == QueryCollectToVec(query, <<>>, cat)
                      IN  Invocation(table, <<request>>, None, Some(collected), 1,
                                     Returned(SortColumns(collected)), cat)

\* the rows system_schema.columns can hold: a table with a partition key, a
\* clustering key and two regular columns (the database gives every regular
\* column the position -1), another table, and a table of another keyspace
CatalogRows ==
    {Row(<<"k">>, <<"t">>, "id", "partition_key", 0, "uuid"),
     Row(<<"k">>, <<"t">>, "c", "clustering", 0, "int"),
     Row(<<"k">>, <<"t">>, "a", "regular", -1, "text"),
     Row(<<"k">>, <<"t">>, "b", "regular", -1, "int"),
     Row(<<"k">>, <<"t", "t">>, "id", "partition_key", 0, "int"),
     Row(<<"j">>, <<"t">>, "x", "partition_key", 0, "int")}

InitialCatalogs ==
    {<<Row(<<"k">>, <<"t">>, "a", "regular", -1, "text"),
       Row(<<"k">>, <<"t">>, "b", "regular", -1, "int"),
       Row(<<"k">>, <<"t">>, "id", "partition_key", 0, "uuid"),
       Row(<<"j">>, <<"t">>, "x", "partition_key", 0, "int")>>,
     <<Row(<<"k">>, <<"t">>, "c", "clustering", 0, "int"),
       Row(<<"k">>, <<"t", "t">>, "id", "partition_key", 0, "int"),
       Row(<<"k">>, <<"t">>, "id", "partition_key", 0, "uuid")>>}

Range(s) == {s[i] : i \in 1..Len(s)}

Init ==
    /\ input = <<>>
    /\ ttl = None
    /\ timestamp = None
    /\ timeout = None
    /\ orig = None
    /\ lit = None
    /\ back = None
    /\ env \in {Some(<<"k">>), None}
    /\ catalog \in InitialCatalogs
    /\ changes = 0
    /\ prev = None
    /\ last = None

QueryColumns ==
    \E table \in TableNames, fails \in BOOLEAN :
        /\ last' = QueryColumnsRun(table, catalog, fails)
        /\ prev' = last
        /\ UNCHANGED <<annVars, env, catalog, changes>>

\* the schema changes: a column is added
AddColumn ==
    \E r \in CatalogRows \ Range(catalog) :
        /\ changes < MaxChanges
        /\ catalog' = Append(catalog, r)
        /\ changes' = changes + 1
        /\ UNCHANGED <<annVars, env, prev, last>>

\* the schema changes: a column is dropped
DropColumn ==
    \E i \in 1..Len(catalog) :
        /\ changes < MaxChanges
        /\ catalog' = SubSeq(catalog, 1, i - 1) \o SubSeq(catalog, i + 1, Len(catalog))
        /\ changes' = changes + 1
        /\ UNCHANGED <<annVars, env, prev, last>>

\* the schema stays and the database returns its rows in another order
ReorderRows ==
    \E i \in 1..(Len(catalog) - 1) :
        /\ changes < MaxChanges
        /\ catalog' = [catalog EXCEPT ![i] = catalog[i + 1], ![i + 1] = catalog[i]]
        /\ changes' = changes + 1
        /\ UNCHANGED <<annVars, env, prev, last>>

Next == QueryColumns \/ AddColumn \/ DropColumn \/ ReorderRows

Spec == Init /\ [][Next]_vars

-----------------------------------------------------------------------------
(* What a string denotes, stated apart from the parsers *)

\* an optional sign followed by one or more decimal digits
IsWellFormedInt(s) ==
    LET digits == IF s # <<>> /\ (s[1] = "+" \/ s[1] = "-") THEN Tail(s) ELSE s
    IN  /\ digits # <<>>
        /\ \A i \in 1..Len(digits) : IsDigit(digits[i])

RECURSIVE StripZeros(_)
StripZeros(m) ==
    IF Len(m) > 1 /\ m[1] = 0 THEN StripZeros(Tail(m)) ELSE m

\* the integer a well-formed literal denotes
LiteralValue(s) ==
    LET digits == IF s[1] = "+" \/ s[1] = "-" THEN Tail(s) ELSE s
        mag == StripZeros([i \in 1..Len(digits) |-> DigitVal(digits[i])])
    IN  [neg |-> s[1] = "-" /\ mag # <<0>>, mag |-> mag]

IsFixed(r, v) == r.tag = "Fixed" /\ r.val = v

-----------------------------------------------------------------------------
(* C1: each of the three parsers answers Parameterized exactly when its    *)
(* input is the one-character string "?"; no other input, "?" with        *)
(* whitespace around it, "??" and the empty string included, does.         *)
C1_ParameterizedIffQuestionMark ==
    /\ ttl # None => (ttl = Parameterized <=> input = <<"?">>)
    /\ timestamp # None => (timestamp = Parameterized <=> input = <<"?">>)
    /\ timeout # None => (timeout = Parameterized <=> input = <<"?">>)

C1_Witness ==
    /\ input = <<"?">>
    /\ ttl = Parameterized
    /\ timestamp = Parameterized
    /\ timeout = Parameterized

(* C2 as claimed: every well-formed signed decimal literal other than "?"  *)
(* parses as TTL and as Timestamp to Fixed of the integer it denotes.      *)
C2_AsClaimed ==
    IsWellFormedInt(input) =>
        /\ ttl # None => IsFixed(ttl, LiteralValue(input))
        /\ timestamp # None => IsFixed(timestamp, LiteralValue(input))

(* C2, amended: a well-formed signed decimal literal parses as TTL to      *)
(* Fixed of the integer it denotes when that integer is in the i32 range,  *)
(* and as Timestamp when it is in the i64 range.                           *)
C2_FixedWithinRange ==
    IsWellFormedInt(input) =>
        /\ (ttl # None /\ InI32(LiteralValue(input)))
               => IsFixed(ttl, LiteralValue(input))
        /\ (timestamp # None /\ InI64(LiteralValue(input)))
               => IsFixed(timestamp, LiteralValue(input))

C2_Witness ==
    /\ input = <<"-", "0", "9">>
    /\ IsFixed(ttl, [neg |-> TRUE, mag |-> <<9>>])
    /\ IsFixed(timestamp, [neg |-> TRUE, mag |-> <<9>>])

(* C3: a string that is neither "?" nor a well-formed signed integer fails *)
(* to parse as TTL and as Timestamp (an error, never a value), and parses  *)
(* as Timeout to Fixed of the very same string.                            *)
C3_MalformedFailsTimeoutAccepts ==
    (input # <<"?">> /\ ~IsWellFormedInt(input)) =>
        /\ ttl # None => ttl.tag = "Err"
        /\ timestamp # None => timestamp.tag = "Err"
        /\ timeout # None => IsFixed(timeout, input)

C3_Witness ==
    /\ input = <<"1", ".", "1">>
    /\ ttl.tag = "Err"
    /\ timestamp.tag = "Err"
    /\ IsFixed(timeout, input)

(* C10: a decimal literal whose value is outside the i32 range and inside  *)
(* the i64 range fails as TTL and parses as Timestamp to Fixed of that     *)
(* value; one whose value is outside the i64 range fails as both.          *)
C10_WidthBound ==
    IsWellFormedInt(input) =>
        LET n == LiteralValue(input)
        IN  /\ (~InI32(n) /\ ttl # None) => ttl.tag = "Err"
            /\ (~InI32(n) /\ InI64(n) /\ timestamp # None) => IsFixed(timestamp, n)
            /\ (~InI64(n) /\ timestamp # None) => timestamp.tag = "Err"

C10_Witness ==
    /\ input = <<"-", "2", "1", "4", "7", "4", "8", "3", "6", "4", "9">>
    /\ ttl = Err("NegOverflow")
    /\ IsFixed(timestamp, [neg |-> TRUE, mag |-> <<2, 1, 4, 7, 4, 8, 3, 6, 4, 9>>])

(* C4 as claimed: every Fixed annotation of any of the three kinds,       *)
(* formatted to its literal and parsed again by its kind's parser, comes   *)
(* back equal to the original.                                             *)
C4_AsClaimed ==
    back # None => back = orig.val

(* C4, amended: every Ttl::Fixed and Timestamp::Fixed, and every           *)
(* Timeout::Fixed(s) with s other than "?", comes back equal to the        *)
(* original; Timeout::Fixed("?") comes back as Parameterized.              *)
C4_RoundTrip ==
    back # None =>
        IF orig.kind = "Timeout" /\ orig.val.val = <<"?">>
        THEN back = Parameterized
        ELSE back = orig.val

C4_Witness ==
    /\ orig.kind = "Ttl"
    /\ orig.val.val = [neg |-> TRUE, mag |-> I32MinMag]
    /\ lit = Some(<<"-", "2", "1", "4", "7", "4", "8", "3", "6", "4", "8">>)
    /\ back = orig.val

-----------------------------------------------------------------------------
(* Invocations of query_columns *)

Invocations == {r \in {prev, last} : r # None}

IsReturned(r) == r # None /\ r.outcome.tag = "Returned"

\* two names that differ in letter case at most
SameButCase(a, b) ==
    /\ Len(a) = Len(b)
    /\ \A i \in 1..Len(a) : a[i] = b[i] \/ {a[i], b[i]} = {"t", "T"}

\* the name with its upper-case letters lowered
Lowered(s) == [i \in 1..Len(s) |-> IF s[i] = "T" THEN "t" ELSE s[i]]

\* the columns of table tbl of keyspace ks in the catalog cat
ColumnsOf(cat, ks, tbl) ==
    {Column(cat[i]) : i \in {j \in 1..Len(cat) :
                                /\ cat[j].keyspace_name = ks
                                /\ cat[j].table_name = tbl}}

\* where column c stands in the sequence s
IndexOf(s, c) == CHOOSE i \in 1..Len(s) : s[i] = c

(* C5 as claimed: when the keyspace cannot be resolved or the execution    *)
(* collaborator fails, query_columns returns that error to its caller as   *)
(* an error value.                                                         *)
C5_AsClaimed ==
    \A r \in Invocations :
        r.failure # None =>
            /\ r.outcome.tag = "Returned"
            /\ r.outcome.val = Err(r.failure.val)

(* C5, amended: when the keyspace cannot be resolved or the execution      *)
(* collaborator fails, query_columns returns no value: the failure unwinds *)
(* through it to the caller unmodified, after at most one request, with no *)
(* rows collected and nothing sorted (no retry, no default, no partial     *)
(* column list).                                                           *)
C5_FailureUnwinds ==
    \A r \in Invocations :
        r.failure # None =>
            /\ r.outcome = Panicked(r.failure.val)
            /\ Len(r.requests) <= 1
            /\ r.raw = None
            /\ r.sorts = 0

C5_Witness ==
    /\ last # None
    /\ last.failure = Some("CatalogUnavailable")
    /\ last.outcome = Panicked("CatalogUnavailable")
    /\ Len(last.requests) = 1
    /\ prev # None
    /\ prev.outcome.tag = "Returned"

(* C6: two invocations whose table names differ only in letter case send   *)
(* the same query text, the table name in it lower-cased, and, the catalog *)
(* answering both in the same state, return the same columns in the same   *)
(* order.                                                                  *)
C6_TableNameNormalized ==
    (prev # None /\ last # None /\ SameButCase(prev.table, last.table)) =>
        /\ (prev.requests # <<>> /\ last.requests # <<>>) =>
              /\ prev.requests[1].query = last.requests[1].query
              /\ \A i \in 1..Len(last.requests[1].query) :
                    last.requests[1].query[i] # "T"
        /\ (IsReturned(prev) /\ IsReturned(last) /\ prev.seen = last.seen) =>
              prev.outcome.val = last.outcome.val

C6_Witness ==
    /\ IsReturned(prev)
    /\ IsReturned(last)
    /\ prev.table = <<"T">>
    /\ last.table = <<"t">>
    /\ prev.seen = last.seen
    /\ prev.requests = last.requests
    /\ Len(last.outcome.val) = 3

C9_AsClaimed ==
    \A r \in Invocations :
        /\ Len(r.requests) = 1
        /\ r.requests[1].params = <<>>
        /\ r.requests[1].query =
              <<SelectPrefix>> \o env.val \o <<TableClause>> \o Lowered(r.table) \o <<Quote>>
        /\ r.sorts = 1
        /\ r.raw # None
        /\ r.outcome.tag = "Returned"
        /\ Len(r.outcome.val) = Len(r.raw.val)
        /\ Range(r.outcome.val) = Range(r.raw.val)
        /\ Range(r.outcome.val) = ColumnsOf(r.seen, env.val, Lowered(r.table))
        /\ Len(r.outcome.val) = Cardinality(ColumnsOf(r.seen, env.val, Lowered(r.table)))

(* C9, amended: every invocation that returns has sent exactly one         *)
(* request, the introspection query with the configured keyspace and the   *)
(* lower-cased table name and no bound parameters, has sorted exactly      *)
(* once, the rows it was returned, and returns the columns the catalog     *)
(* held when it ran, not those of an earlier invocation.                   *)
C9_OneRequestPerReturn ==
    \A r \in Invocations :
        r.outcome.tag = "Returned" =>
            /\ Len(r.requests) = 1
            /\ r.requests[1].params = <<>>
            /\ r.requests[1].query =
                  <<SelectPrefix>> \o env.val \o <<TableClause>> \o Lowered(r.table) \o <<Quote>>
            /\ r.sorts = 1
            /\ r.raw # None
            /\ Len(r.outcome.val) = Len(r.raw.val)
            /\ Range(r.outcome.val) = Range(r.raw.val)
            /\ Range(r.outcome.val) = ColumnsOf(r.seen, env.val, Lowered(r.table))
            /\ Len(r.outcome.val) = Cardinality(ColumnsOf(r.seen, env.val, Lowered(r.table)))

C9_Witness ==
    /\ IsReturned(prev)
    /\ IsReturned(last)
    /\ prev.requests = last.requests
    /\ Len(last.requests) = 1
    /\ prev.seen # last.seen
    /\ Len(prev.outcome.val) = 3
    /\ Len(last.outcome.val) = 4

=============================================================================
